---- MODULE Spec2Model ----
(***************************************************************************)
(* Model of the stock data pipeline: the indicator engine                  *)
(* (src/indicators.py), the fetch loop (src/data_fetcher.py) and the       *)
(* upsert writer and run driver (src/data_processor.py) over the           *)
(* stock_data table (src/database.py).                                     *)
(*                                                                         *)
(* Numbers.  A float64 is modelled as an exact rational [num, den] with    *)
(* den > 0, and NaN as 0/0 (den = 0).  Prices and volumes are integers in  *)
(* a price unit of 1e-4, so that the 1e-10 of calculate_t_score is         *)
(* 1/EpsInv of a unit.  The exponentially weighted mean is kept on a       *)
(* 1/EmaScale grid (rounded down at each step), because its exact          *)
(* denominator (p+1)^i does not fit a machine integer.  float64 rounding   *)
(* itself is not modelled.                                                 *)
(***************************************************************************)
EXTENDS Integers, Sequences, FiniteSets, TLC

\* ------------------------------------------------------------------ bounds
\* most rows of a multi-symbol frame given to process_multiple_symbols
MaxBars == 3
\* longest single-symbol series given to add_all_indicators: one row more than
\* the 52-week window, so that the window leaves the first row behind
MaxLen == 253
\* resolution of the grid the exponentially weighted mean is kept on
EmaScale == 1000

\* rows per insert statement of _store_data (1000 in the code, scaled down so
\* that a handful of rows spans several statements)
batch_size == 2
\* most rows handed to one _store_data call by the upsert driver
MaxRows == 3
\* trading days the bar source has for a symbol
MaxDate == 2
\* longest list of symbols of a run
MaxSymbols == 2

\* --------------------------------------------------------------- constants
\* 1e-10 in price units of 1e-4: epsilon = 1 / EpsInv
EpsInv == 1000000
\* lookback of calculate_t_score
lookback == 14
DMA_PERIODS == <<10, 21, 50, 100>>
EMA_PERIODS == <<10, 21, 50, 100>>
WEEK_52_DAYS == 252
LOOKBACK_DAYS == 200

VARIABLES
    pc,              \* position of the running operation
    raw_data,        \* the frame handed to the indicator engine
    processed_data,  \* the frame it returns
    alt_data,        \* a second input frame, for comparing two calls
    alt_processed,   \* the frame returned for it
    run_symbols,     \* process_and_store_stocks: the list of symbols of the run
    n_bars,          \* and the number of bars asked for per symbol
    fetch_pos,       \* fetch_multiple_stocks: symbols fetched so far
    all_data,        \* fetch_multiple_stocks: the frames fetched so far
    outcomes,        \* what the bar source did for each symbol fetched (history)
    result,          \* what process_and_store_stocks returned
    records,         \* _store_data: df.to_dict('records')
    offset,          \* _store_data: the loop variable i
    session,         \* the table as the open transaction sees it
    store,           \* the committed stock_data table, as any reader sees it
    store0,          \* the committed table when _store_data was entered (history)
    issued,          \* statements executed by this _store_data call (history)
    failed_at,       \* value of issued when a statement failed, else 0 (history)
    raised,          \* this _store_data call ended by raising (history)
    again            \* this call submits the rows the previous call stored (history)

vars == <<pc, raw_data, processed_data, alt_data, alt_processed, run_symbols, n_bars,
          fetch_pos,
          all_data, outcomes, result, records, offset, session, store, store0,
          issued, failed_at, raised, again>>
engineVars == <<raw_data, processed_data>>
altVars == <<alt_data, alt_processed>>
fetchVars == <<run_symbols, n_bars, fetch_pos, all_data, outcomes, result>>
storeVars == <<records, offset, session, store, store0, issued, failed_at, raised,
               again>>

\* the variables an engine-only specification leaves at rest
PipelineAtRest ==
    /\ run_symbols = <<>> /\ n_bars = 0 /\ fetch_pos = 0 /\ all_data = <<>> /\ outcomes = <<>>
    /\ result = "none"
    /\ records = <<>> /\ offset = 0 /\ session = {} /\ store = {} /\ store0 = {}
    /\ issued = 0 /\ failed_at = 0 /\ raised = FALSE /\ again = FALSE

\* ------------------------------------------------------------------ floats
NaN == [num |-> 0, den |-> 0]
IsNaN(v) == v.den = 0
Rat(x) == [num |-> x, den |-> 1]
\* a comparison that lets NaN through as True
GtNaNTrue(a, b) == IsNaN(a) \/ IsNaN(b) \/ a.num * b.den > b.num * a.den
\* pandas comparison: any comparison with NaN is False
Gt(a, b) == ~IsNaN(a) /\ ~IsNaN(b) /\ a.num * b.den > b.num * a.den
Ge(a, b) == ~IsNaN(a) /\ ~IsNaN(b) /\ a.num * b.den >= b.num * a.den
Le(a, b) == ~IsNaN(a) /\ ~IsNaN(b) /\ a.num * b.den <= b.num * a.den
\* .astype(int) of a boolean
AsInt(b) == IF b THEN 1 ELSE 0
Min2(a, b) == IF a <= b THEN a ELSE b
Max2(a, b) == IF a >= b THEN a ELSE b

\* column of a frame as a sequence of floats
Column(df, c) == [i \in 1..Len(df) |-> Rat(df[i][c])]

\* ------------------------------------------------------------- window ops
\* The trailing-window statistics are computed the way pandas computes them:
\* one pass over the column that carries a running value.  Scan is that pass:
\* out[i] = ScanStep(op, out[i-1], x[i]) with out[lo-1] = carry (the halving only keeps
\* the evaluation shallow).
\* one step of the pass: the running sum, maximum or minimum, or the
\* exponentially weighted mean (1-alpha) a + alpha b, alpha = 2 / (span + 1),
\* on the 1/EmaScale grid
ScanStep(op, a, b) ==
    CASE op.kind = "sum" -> a + b
      [] op.kind = "max" -> Max2(a, b)
      [] op.kind = "min" -> Min2(a, b)
      [] op.kind = "ewm" -> ((op.span - 1) * a + 2 * b * EmaScale) \div (op.span + 1)

RECURSIVE Scan(_, _, _, _, _)
Scan(op, x, lo, hi, carry) ==
    IF lo > hi THEN <<>>
    ELSE IF lo = hi THEN <<ScanStep(op, carry, x[lo].num)>>
    ELSE LET mid == (lo + hi) \div 2
             left == Scan(op, x, lo, mid, carry)
         IN  left \o Scan(op, x, mid + 1, hi, left[Len(left)])

\* running sums, maxima and minima from the first row
RunningSum(x) == Scan([kind |-> "sum"], x, 1, Len(x), 0)
RunningMax(x) == IF Len(x) = 0 THEN <<>> ELSE Scan([kind |-> "max"], x, 1, Len(x), x[1].num)
RunningMin(x) == IF Len(x) = 0 THEN <<>> ELSE Scan([kind |-> "min"], x, 1, Len(x), x[1].num)

\* maximum and minimum of x[lo..hi], lo <= hi
RECURSIVE WindowMax(_, _, _)
WindowMax(x, lo, hi) ==
    IF lo = hi THEN x[hi].num
    ELSE LET mid == (lo + hi) \div 2
         IN  Max2(WindowMax(x, lo, mid), WindowMax(x, mid + 1, hi))

RECURSIVE WindowMin(_, _, _)
WindowMin(x, lo, hi) ==
    IF lo = hi THEN x[hi].num
    ELSE LET mid == (lo + hi) \div 2
         IN  Min2(WindowMin(x, lo, mid), WindowMin(x, mid + 1, hi))

\* number of observations in the trailing window ending at row i (1-based)
Observations(i, window) == Min2(i, window)

\* Series.rolling(window, min_periods).mean() over a column of integers
RollingMean(x, window, min_periods) ==
    LET sums == RunningSum(x)
    IN  [i \in 1..Len(x) |->
            IF Observations(i, window) >= min_periods
            THEN [num |-> sums[i] - (IF i > window THEN sums[i - window] ELSE 0),
                  den |-> Observations(i, window)]
            ELSE NaN]

\* Series.rolling(window, min_periods).max()
RollingMax(x, window, min_periods) ==
    LET run == RunningMax(x)
    IN  [i \in 1..Len(x) |->
            IF Observations(i, window) >= min_periods
            THEN Rat(IF i <= window THEN run[i] ELSE WindowMax(x, i - window + 1, i))
            ELSE NaN]

\* Series.rolling(window, min_periods).min()
RollingMin(x, window, min_periods) ==
    LET run == RunningMin(x)
    IN  [i \in 1..Len(x) |->
            IF Observations(i, window) >= min_periods
            THEN Rat(IF i <= window THEN run[i] ELSE WindowMin(x, i - window + 1, i))
            ELSE NaN]

\* Series.expanding(min_periods).max() / .min()
ExpandingMax(x, min_periods) ==
    LET run == RunningMax(x)
    IN  [i \in 1..Len(x) |-> IF i >= min_periods THEN Rat(run[i]) ELSE NaN]

ExpandingMin(x, min_periods) ==
    LET run == RunningMin(x)
    IN  [i \in 1..Len(x) |-> IF i >= min_periods THEN Rat(run[i]) ELSE NaN]

\* Series.shift(k)
Shift(x, k) == [i \in 1..Len(x) |-> IF i > k THEN x[i - k] ELSE NaN]

\* Series.pct_change(k): x[i] / x[i-k] - 1 (prices are positive)
PctChange(x, k) ==
    [i \in 1..Len(x) |->
        IF i > k
        THEN [num |-> x[i].num - x[i - k].num, den |-> x[i - k].num]
        ELSE NaN]

\* Series.ewm(span, adjust=False).mean() before min_periods is applied, on the
\* 1/EmaScale grid: y[1] = x[1], y[i] = (1-alpha) y[i-1] + alpha x[i],
\* alpha = 2 / (span + 1)
EwmRaw(x, span) ==
    IF Len(x) = 0 THEN <<>>
    ELSE <<x[1].num * EmaScale>>
             \o Scan([kind |-> "ewm", span |-> span], x, 2, Len(x), x[1].num * EmaScale)

\* ------------------------------------------------------------- indicators
calculate_sma_min1(data, period) == RollingMean(data, period, 1)
calculate_sma(data, period) == RollingMean(data, period, period)

\* the textbook variant: seeded with the mean of the first period values
calculate_ema_sma_seeded(data, period) ==
    LET n == Len(data)
        seed == IF n >= period
                THEN (RunningSum(data)[period] * EmaScale) \div period ELSE 0
        tail == Scan([kind |-> "ewm", span |-> period], data, period + 1, n, seed)
    IN  [i \in 1..n |->
            IF i < period THEN NaN
            ELSE [num |-> IF i = period THEN seed ELSE tail[i - period],
                  den |-> EmaScale]]

calculate_ema(data, period) ==
    LET y == EwmRaw(data, period)
    IN  [i \in 1..Len(data) |->
            IF i >= period THEN [num |-> y[i], den |-> EmaScale] ELSE NaN]

\* the same formula without the 1e-10 in the denominator
calculate_t_score_no_eps(df) ==
    LET high_n == RollingMax(Column(df, "high"), lookback, lookback)
        low_n == RollingMin(Column(df, "low"), lookback, lookback)
    IN  [i \in 1..Len(df) |->
            IF IsNaN(high_n[i]) \/ IsNaN(low_n[i]) THEN NaN
            ELSE IF high_n[i].num = low_n[i].num THEN NaN
            ELSE [num |-> (df[i].close - low_n[i].num) * 100,
                  den |-> high_n[i].num - low_n[i].num]]

calculate_t_score(df) ==
    LET high_n == RollingMax(Column(df, "high"), lookback, lookback)
        low_n == RollingMin(Column(df, "low"), lookback, lookback)
    IN  [i \in 1..Len(df) |->
            IF IsNaN(high_n[i]) \/ IsNaN(low_n[i]) THEN NaN
            ELSE [num |-> (df[i].close - low_n[i].num) * 100 * EpsInv,
                  den |-> (high_n[i].num - low_n[i].num) * EpsInv + 1]]

calculate_f_score(df) ==
    LET close == Column(df, "close")
        volume == Column(df, "volume")
        ma_50 == calculate_sma(close, 50)
        price_20d_ago == Shift(close, 20)
        ma_50_20d_ago == Shift(ma_50, 20)
        avg_volume == calculate_sma(volume, 50)
        ma_10 == calculate_sma(close, 10)
        ma_20 == calculate_sma(close, 20)
        ma_200 == calculate_sma(close, 200)
        returns_5d == PctChange(close, 5)
        returns_20d == PctChange(close, 20)
    IN  [i \in 1..Len(df) |->
            0 + AsInt(Gt(close[i], ma_50[i]))
              + AsInt(Gt(close[i], price_20d_ago[i]))
              + AsInt(Gt(ma_50[i], ma_50_20d_ago[i]))
              + AsInt(Gt(volume[i], avg_volume[i]))
              + AsInt(Gt(ma_10[i], ma_20[i]))
              + AsInt(Gt(ma_20[i], ma_50[i]))
              + AsInt(Gt(close[i], ma_200[i]))
              + AsInt(Gt(returns_5d[i], Rat(0)))
              + AsInt(Gt(returns_20d[i], Rat(0)))]

\* the same flag on full windows only (min_periods = period)
calculate_52_week_high_full_window(df) ==
    LET high == Column(df, "high")
        rolling_max == RollingMax(high, WEEK_52_DAYS, WEEK_52_DAYS)
    IN  [i \in 1..Len(df) |-> Ge(high[i], rolling_max[i])]

calculate_52_week_high(df) ==
    LET high == Column(df, "high")
        rolling_max == RollingMax(high, WEEK_52_DAYS, 1)
    IN  [i \in 1..Len(df) |-> Ge(high[i], rolling_max[i])]

calculate_52_week_low(df) ==
    LET low == Column(df, "low")
        rolling_min == RollingMin(low, WEEK_52_DAYS, 1)
    IN  [i \in 1..Len(df) |-> Le(low[i], rolling_min[i])]

\* the same flag with a strict comparison against the running maximum
calculate_all_time_high_strict(df) ==
    LET high == Column(df, "high")
        expanding_max == ExpandingMax(high, 1)
    IN  [i \in 1..Len(df) |-> Gt(high[i], expanding_max[i])]

calculate_all_time_high(df) ==
    LET high == Column(df, "high")
        expanding_max == ExpandingMax(high, 1)
    IN  [i \in 1..Len(df) |-> Ge(high[i], expanding_max[i])]

calculate_all_time_low(df) ==
    LET low == Column(df, "low")
        expanding_min == ExpandingMin(low, 1)
    IN  [i \in 1..Len(df) |-> Le(low[i], expanding_min[i])]

\* df.sort_values('date'): a merge sort on the date column, ascending; rows of
\* equal date keep their order
MergeByDate(a, b) ==
    IF a = <<>> THEN b
    ELSE IF b = <<>> THEN a
    ELSE IF a[Len(a)].date <= b[1].date THEN a \o b
    ELSE LET posA == [i \in 1..Len(a) |->
                         i + Cardinality({j \in 1..Len(b) : b[j].date < a[i].date})]
             posB == [j \in 1..Len(b) |->
                         j + Cardinality({i \in 1..Len(a) : a[i].date <= b[j].date})]
         IN  [k \in 1..(Len(a) + Len(b)) |->
                 IF \E i \in 1..Len(a) : posA[i] = k
                 THEN a[CHOOSE i \in 1..Len(a) : posA[i] = k]
                 ELSE b[CHOOSE j \in 1..Len(b) : posB[j] = k]]

RECURSIVE SortRange(_, _, _)
SortRange(df, lo, hi) ==
    IF lo > hi THEN <<>>
    ELSE IF lo = hi THEN <<df[lo]>>
    ELSE LET mid == (lo + hi) \div 2
         IN  MergeByDate(SortRange(df, lo, mid), SortRange(df, mid + 1, hi))

Unsorted(df) == df
sort_values(df) == SortRange(df, 1, Len(df))

\* add_all_indicators(df) with symbol = None
add_all_indicators(df) ==
    LET symbol_df == sort_values(df)
        close == Column(symbol_df, "close")
        t_score == calculate_t_score(symbol_df)
        f_score == calculate_f_score(symbol_df)
        dma_10 == calculate_sma(close, DMA_PERIODS[1])
        dma_21 == calculate_sma(close, DMA_PERIODS[2])
        dma_50 == calculate_sma(close, DMA_PERIODS[3])
        dma_100 == calculate_sma(close, DMA_PERIODS[4])
        ema_10 == calculate_ema(close, EMA_PERIODS[1])
        ema_21 == calculate_ema(close, EMA_PERIODS[2])
        ema_50 == calculate_ema(close, EMA_PERIODS[3])
        ema_100 == calculate_ema(close, EMA_PERIODS[4])
        h52 == calculate_52_week_high(symbol_df)
        l52 == calculate_52_week_low(symbol_df)
        ath == calculate_all_time_high(symbol_df)
        atl == calculate_all_time_low(symbol_df)
    IN  [i \in 1..Len(symbol_df) |->
            [symbol |-> symbol_df[i].symbol, date |-> symbol_df[i].date,
             open |-> symbol_df[i].open, high |-> symbol_df[i].high,
             low |-> symbol_df[i].low, close |-> symbol_df[i].close,
             volume |-> symbol_df[i].volume,
             t_score |-> t_score[i], f_score |-> f_score[i],
             dma_10 |-> dma_10[i], dma_21 |-> dma_21[i],
             dma_50 |-> dma_50[i], dma_100 |-> dma_100[i],
             ema_10 |-> ema_10[i], ema_21 |-> ema_21[i],
             ema_50 |-> ema_50[i], ema_100 |-> ema_100[i],
             is_52_week_high |-> h52[i], is_52_week_low |-> l52[i],
             is_all_time_high |-> ath[i], is_all_time_low |-> atl[i]]]

\* ------------------------------------------------- process_multiple_symbols
\* df['symbol'].unique(): the symbols in order of first appearance
Unique(df) ==
    LET first == {i \in 1..Len(df) : \A j \in 1..(i - 1) : df[j].symbol # df[i].symbol}
    IN  [k \in 1..Cardinality(first) |->
            df[CHOOSE i \in first : Cardinality({j \in first : j <= i}) = k].symbol]

\* df[df['symbol'] == symbol]
SymbolDataUnfiltered(df, symbol) == df
SymbolData(df, symbol) == SelectSeq(df, LAMBDA r : r.symbol = symbol)

\* pd.concat(all_processed, ignore_index=True) of the first n frames
RECURSIVE Concat(_, _)
Concat(frames, n) == IF n = 0 THEN <<>> ELSE Concat(frames, n - 1) \o frames[n]

\* df is not empty (pd.concat of no frames raises ValueError)
process_multiple_symbols(df) ==
    LET symbols == Unique(df)
        all_processed == [k \in 1..Len(symbols) |->
                             add_all_indicators(sort_values(SymbolData(df, symbols[k])))]
    IN  Concat(all_processed, Len(symbols))

\* ----------------------------------------------------- single-series runs
\* The series given to the engine: one symbol, dates 1..n ascending, of a few
\* shapes.  "invalid" breaks the Bar invariant low <= close <= high; "spike"
\* has its highest high and lowest low on the first row and a slowly widening
\* range after it.
Shapes == {"up", "down", "flat", "zigzag", "invalid", "spike"}

SeriesBar(shape, i) ==
    LET c == CASE shape = "up" -> 10 + i
               [] shape = "down" -> 400 - i
               [] shape = "flat" -> 50
               [] shape = "zigzag" -> 50 + (i % 7)
               [] shape = "invalid" -> 47 + 3 * (i % 3)
               [] shape = "spike" -> 50
        h == CASE shape = "flat" -> c
               [] shape = "invalid" -> 51
               [] shape = "spike" -> IF i = 1 THEN 60 ELSE 51 + (i \div 32)
               [] OTHER -> c + 1
        l == CASE shape = "flat" -> c
               [] shape = "invalid" -> 49
               [] shape = "spike" -> IF i = 1 THEN 40 ELSE 48 - (i \div 32)
               [] OTHER -> c - 1
        v == CASE shape = "up" -> 100 + i
               [] shape = "down" -> 400 - i
               [] shape = "flat" -> 100
               [] shape = "zigzag" -> 100 + (i % 3)
               [] shape = "invalid" -> 100
               [] shape = "spike" -> 100
    IN  [symbol |-> "A", date |-> i, open |-> c, high |-> h, low |-> l,
         close |-> c, volume |-> v]

Series(shape, n) == [i \in 1..n |-> SeriesBar(shape, i)]

SeriesInit ==
    /\ pc = "series"
    /\ \E shape \in Shapes, n \in 0..MaxLen : raw_data = Series(shape, n)
    /\ processed_data = <<>>
    /\ alt_data = <<>> /\ alt_processed = <<>>
    /\ PipelineAtRest

AddAllIndicators ==
    /\ pc = "series"
    /\ processed_data' = add_all_indicators(raw_data)
    /\ pc' = "series_done"
    /\ UNCHANGED <<raw_data, altVars, fetchVars, storeVars>>

SeriesNext == AddAllIndicators

SpecSeries == SeriesInit /\ [][SeriesNext]_vars

\* ---------------------------------------------------- multi-symbol frames
Symbols == {"A", "B"}
FrameDates == {1, 2}
FramePrices == {1, 2}

Bar(symbol, date, price) ==
    [symbol |-> symbol, date |-> date, open |-> price, high |-> price + 1,
     low |-> price - 1, close |-> price, volume |-> 100 * price]

FrameBars == {Bar(s, d, v) : s \in Symbols, d \in FrameDates, v \in FramePrices}

\* non-empty frames in any row order, at most one bar per (symbol, date)
Frames ==
    {f \in UNION {[1..n -> FrameBars] : n \in 1..MaxBars} :
        \A i, j \in 1..Len(f) :
            (f[i].symbol = f[j].symbol /\ f[i].date = f[j].date) => i = j}

BarsOf(df, symbol) == {df[i] : i \in {j \in 1..Len(df) : df[j].symbol = symbol}}

\* two calls whose inputs hold the same bars for one symbol
BatchInit ==
    /\ pc = "batch"
    /\ raw_data \in Frames
    /\ alt_data \in Frames
    /\ \E b \in Symbols :
           BarsOf(raw_data, b) # {} /\ BarsOf(raw_data, b) = BarsOf(alt_data, b)
    /\ processed_data = <<>> /\ alt_processed = <<>>
    /\ PipelineAtRest

ProcessMultipleSymbols ==
    /\ pc = "batch"
    /\ processed_data' = process_multiple_symbols(raw_data)
    /\ alt_processed' = process_multiple_symbols(alt_data)
    /\ pc' = "batch_done"
    /\ UNCHANGED <<raw_data, alt_data, fetchVars, storeVars>>

BatchNext == ProcessMultipleSymbols

SpecBatch == BatchInit /\ [][BatchNext]_vars

\* --------------------------------------- properties of the batch processor
BatchDone == pc = "batch_done"
RowsOf(df, symbol) == SelectSeq(df, LAMBDA r : r.symbol = symbol)

\* C6 (per-symbol isolation): when two inputs hold the same bars for a symbol,
\* the indicator rows computed for that symbol are the same in both outputs,
\* whatever the other symbol's bars are (changed, or left out).
PerSymbolIsolation ==
    BatchDone =>
        \A b \in Symbols :
            BarsOf(raw_data, b) = BarsOf(alt_data, b)
                => RowsOf(processed_data, b) = RowsOf(alt_processed, b)

\* one input has bars of the other symbol that the second input changes or drops
IsolationWitness ==
    /\ BatchDone
    /\ \E a, b \in Symbols :
        /\ a # b
        /\ BarsOf(raw_data, b) = BarsOf(alt_data, b)
        /\ Len(RowsOf(processed_data, b)) = 2
        /\ BarsOf(raw_data, a) # {}
        /\ BarsOf(raw_data, a) # BarsOf(alt_data, a)
        /\ RowsOf(processed_data, a) # RowsOf(alt_processed, a)

\* C7 (deterministic merge): the output holds exactly one row per input bar, the
\* rows of a symbol are contiguous, the symbol groups come in the order in which
\* the symbols first appear in the input, and dates ascend within a group.
FirstSeen(df, symbol) == CHOOSE i \in 1..Len(df) :
    df[i].symbol = symbol /\ \A j \in 1..(i - 1) : df[j].symbol # symbol

SameBar(r, bar) ==
    /\ r.symbol = bar.symbol /\ r.date = bar.date /\ r.open = bar.open
    /\ r.high = bar.high /\ r.low = bar.low /\ r.close = bar.close
    /\ r.volume = bar.volume

DeterministicMerge ==
    BatchDone =>
        LET out == processed_data
            n == Len(out)
        IN  /\ n = Len(raw_data)
            /\ \A i \in 1..Len(raw_data) :
                   Cardinality({j \in 1..n : SameBar(out[j], raw_data[i])}) = 1
            /\ \A x, y, z \in 1..n :
                   (x < y /\ y < z /\ out[x].symbol = out[z].symbol)
                       => out[y].symbol = out[x].symbol
            /\ \A x, y \in 1..n :
                   (x < y /\ out[x].symbol # out[y].symbol)
                       => FirstSeen(raw_data, out[x].symbol)
                              < FirstSeen(raw_data, out[y].symbol)
            /\ \A x, y \in 1..n :
                   (x < y /\ out[x].symbol = out[y].symbol)
                       => out[x].date < out[y].date

\* an input whose symbols interleave and whose dates descend
MergeWitness ==
    /\ BatchDone
    /\ Len(raw_data) = 3
    /\ raw_data[1].symbol = raw_data[3].symbol
    /\ raw_data[2].symbol # raw_data[1].symbol
    /\ raw_data[1].date > raw_data[3].date
    /\ Len(processed_data) = 3

\* ------------------------------------------------------ the stock_data table
\* The table is the set of its rows; a row is a record of the columns below.
\* The surrogate id column is not modelled.  A reader sees `store`; the open
\* transaction of a session sees `session`.

\* index_elements of the ON CONFLICT clause, the columns of uix_symbol_date
index_elements == {"symbol", "date"}

\* update_dict without the last of the four flags
update_dict_short ==
    {"open", "high", "low", "close", "volume", "t_score", "f_score",
     "dma_10", "dma_21", "dma_50", "dma_100", "ema_10", "ema_21", "ema_50",
     "ema_100", "is_52_week_high", "is_52_week_low", "is_all_time_high"}

\* the columns of update_dict
update_dict ==
    {"open", "high", "low", "close", "volume", "t_score", "f_score",
     "dma_10", "dma_21", "dma_50", "dma_100", "ema_10", "ema_21", "ema_50",
     "ema_100", "is_52_week_high", "is_52_week_low", "is_all_time_high",
     "is_all_time_low"}

SameKey(r1, r2) == \A c \in index_elements : r1[c] = r2[c]

\* a merge instead of a replace: volume added to the stored volume
excluded_accumulate(old, new, c) == IF c = "volume" THEN old[c] + new[c] ELSE new[c]
\* stmt.excluded.<c>: the value of the row proposed for insertion
excluded(old, new, c) == new[c]

\* ON CONFLICT (symbol, date) DO UPDATE SET update_dict
on_conflict_do_update(old, new) ==
    [c \in DOMAIN old |-> IF c \in update_dict THEN excluded(old, new, c) ELSE old[c]]

\* INSERT of one row with the ON CONFLICT clause
InsertRow(table, row) ==
    IF \E old \in table : SameKey(old, row)
    THEN LET old == CHOOSE r \in table : SameKey(r, row)
         IN  (table \ {old}) \cup {on_conflict_do_update(old, row)}
    ELSE table \cup {row}

\* the first n rows of a statement's VALUES applied in order
RECURSIVE InsertRows(_, _, _)
InsertRows(table, batch, n) ==
    IF n = 0 THEN table ELSE InsertRow(InsertRows(table, batch, n - 1), batch[n])

\* PostgreSQL rejects a statement whose VALUES hold a conflict key twice
\* ("ON CONFLICT DO UPDATE command cannot affect row a second time")
HasDuplicateKeys(batch) ==
    \E x, y \in 1..Len(batch) : x # y /\ SameKey(batch[x], batch[y])

\* sessionmaker(autocommit=...)
AutocommitOn == TRUE
autocommit == FALSE

\* the except clause of _store_data ends in `raise`
OnStoreErrorSwallowed == "store_ok"
OnStoreError == "store_raised"

\* ------------------------------------------------------------- _store_data
StoreBegin ==
    /\ pc = "store"
    /\ records' = processed_data
    /\ offset' = 0
    /\ session' = store
    /\ store0' = store
    /\ issued' = 0
    /\ failed_at' = 0
    /\ raised' = FALSE
    /\ pc' = "store_loop"
    /\ UNCHANGED <<engineVars, altVars, fetchVars, store, again>>

\* one iteration of the loop: session.execute(stmt) for records[i:i + batch_size]
ExecuteBatch ==
    /\ pc = "store_loop"
    /\ offset < Len(records)
    /\ LET batch == SubSeq(records, offset + 1, Min2(offset + batch_size, Len(records)))
       IN  /\ issued' = issued + 1
           /\ \/ /\ ~HasDuplicateKeys(batch)
                 /\ session' = InsertRows(session, batch, Len(batch))
                 /\ store' = IF autocommit THEN session' ELSE store
                 /\ offset' = offset + batch_size
                 /\ UNCHANGED <<pc, failed_at>>
              \/ \E n \in 0..(Len(batch) - 1) :
                 \* the statement fails with n of its rows written, none visible
                 /\ session' = InsertRows(session, batch, n)
                 /\ failed_at' = issued'
                 /\ pc' = "store_except"
                 /\ UNCHANGED <<store, offset>>
    /\ UNCHANGED <<engineVars, altVars, fetchVars, records, store0, raised, again>>

\* session.commit() after the loop
Commit ==
    /\ pc = "store_loop"
    /\ offset >= Len(records)
    /\ \/ store' = session /\ pc' = "store_ok"
       \/ pc' = "store_except" /\ UNCHANGED store
    /\ UNCHANGED <<engineVars, altVars, fetchVars, records, offset, session, store0,
                   issued, failed_at, raised, again>>

\* except: session.rollback(); raise   finally: session.close()
Rollback ==
    /\ pc = "store_except"
    /\ session' = store
    /\ pc' = OnStoreError
    /\ raised' = (OnStoreError = "store_raised")
    /\ UNCHANGED <<engineVars, altVars, fetchVars, records, offset, store, store0,
                   issued, failed_at, again>>

StoreData == StoreBegin \/ ExecuteBatch \/ Commit \/ Rollback

\* ------------------------------------------------- callers of _store_data
\* Rows as the upsert writer receives them: every column of an IndicatorRow,
\* in two variants per key that differ in every value column.
IndicatorRow(symbol, date, v) ==
    LET x == IF v = 1 THEN NaN ELSE Rat(v)
    IN  [symbol |-> symbol, date |-> date, open |-> v, high |-> v + 1,
         low |-> v - 1, close |-> v, volume |-> 100 * v,
         t_score |-> x, f_score |-> v,
         dma_10 |-> x, dma_21 |-> x, dma_50 |-> x, dma_100 |-> x,
         ema_10 |-> x, ema_21 |-> x, ema_50 |-> x, ema_100 |-> x,
         is_52_week_high |-> v = 1, is_52_week_low |-> v = 1,
         is_all_time_high |-> v = 1, is_all_time_low |-> v = 1]

RowKeys == {<<"A", 1>>, <<"A", 2>>, <<"B", 1>>}
RowUniverse == {IndicatorRow(key[1], key[2], v) : key \in RowKeys, v \in {1, 2}}
RowFrames == UNION {[1..n -> RowUniverse] : n \in 1..MaxRows}

StoreInit ==
    /\ pc = "idle"
    /\ raw_data = <<>> /\ processed_data = <<>>
    /\ alt_data = <<>> /\ alt_processed = <<>>
    /\ PipelineAtRest

\* the locals of the previous _store_data call are gone
StoreLocalsGone ==
    /\ records' = <<>> /\ offset' = 0 /\ session' = store /\ store0' = store
    /\ issued' = 0 /\ failed_at' = 0 /\ raised' = FALSE

\* a caller hands a frame of rows to _store_data
SubmitRows ==
    /\ pc = "idle"
    /\ \E df \in RowFrames : processed_data' = df
    /\ again' = FALSE
    /\ pc' = "store"
    /\ StoreLocalsGone
    /\ UNCHANGED <<raw_data, altVars, fetchVars, store>>

\* after a successful call the caller submits the same frame once more
Resubmit ==
    /\ pc = "store_ok"
    /\ again' = TRUE
    /\ pc' = "store"
    /\ StoreLocalsGone
    /\ UNCHANGED <<engineVars, altVars, fetchVars, store>>

\* the caller is done with the frame
Forget ==
    /\ pc \in {"store_ok", "store_raised"}
    /\ processed_data' = <<>>
    /\ again' = FALSE
    /\ pc' = "idle"
    /\ StoreLocalsGone
    /\ UNCHANGED <<raw_data, altVars, fetchVars, store>>

StoreNext == SubmitRows \/ Resubmit \/ Forget \/ StoreData

SpecStore == StoreInit /\ [][StoreNext]_vars

\* ------------------------------------------ properties of the upsert writer
KeysOf(rows) == {<<r.symbol, r.date>> : r \in rows}
RecordSet == {records[x] : x \in 1..Len(records)}
DistinctKeys == ~HasDuplicateKeys(records)

\* C1 (all-or-nothing): while a _store_data call has not committed, and after a
\* call that failed in any statement (the first or a later one) or in the
\* commit, the committed table equals the table at the start of the call.
StoreAllOrNothing ==
    pc \in {"store_loop", "store_except", "store_raised"} => store = store0

\* a call whose second statement failed after its first one had written rows
AllOrNothingWitness ==
    /\ pc = "store_raised"
    /\ failed_at = 2
    /\ store = store0
    /\ KeysOf(RecordSet) \ KeysOf(store) # {}

\* C2 (idempotent upsert): a call that submits, with distinct keys, the rows the
\* call before it stored leaves the table as that call left it.
StoreIdempotent ==
    (pc = "store_ok" /\ again /\ DistinctKeys) => store = store0

\* the second of two successful calls with the same rows
IdempotentWitness ==
    /\ pc = "store_ok" /\ again /\ DistinctKeys
    /\ Len(records) = 3
    /\ RecordSet \subseteq store

\* C3 (full replace by key): after a successful call with rows of distinct keys
\* the table holds one row per key of the old table and of the rows; the row of
\* every submitted key equals the submitted row in every column; the rows of
\* the other keys are the old ones.
StoreFullReplace ==
    (pc = "store_ok" /\ DistinctKeys) =>
        /\ KeysOf(store) = KeysOf(store0) \cup KeysOf(RecordSet)
        /\ Cardinality(store) = Cardinality(KeysOf(store))
        /\ \A r \in RecordSet : r \in store
        /\ \A r \in store0 : <<r.symbol, r.date>> \notin KeysOf(RecordSet) => r \in store

\* a stored flag goes from true back to false while another row is kept
FullReplaceWitness ==
    /\ pc = "store_ok" /\ DistinctKeys
    /\ \E old \in store0, new \in RecordSet :
        /\ SameKey(old, new)
        /\ old.is_all_time_low /\ ~new.is_all_time_low
        /\ new \in store
    /\ \E r \in store0 : <<r.symbol, r.date>> \notin KeysOf(RecordSet)

\* ------------------------------------------------------------ the pipeline
\* fetch_stock_data catches every exception of the bar source and returns None
OnFetchErrorAbort == "abort"
OnFetchError == "skip"

\* What tv.get_hist returns when it has data: the last n bars of the symbol's
\* daily history of MaxDate days, rising or falling.
get_hist(symbol, n, trend) ==
    LET have == Min2(n, MaxDate)
    IN  [j \in 1..have |->
            LET date == MaxDate - have + j
            IN  Bar(symbol, date,
                    IF trend = "rising" THEN date ELSE MaxDate + 1 - date)]

SymbolLists == UNION {[1..n -> Symbols] : n \in 0..MaxSymbols}

Init ==
    /\ pc = "idle"
    /\ raw_data = <<>> /\ processed_data = <<>>
    /\ alt_data = <<>> /\ alt_processed = <<>>
    /\ PipelineAtRest

\* process_and_store_stocks(symbols, exchange, n_bars) is called
StartRun ==
    /\ pc \in {"idle", "done"}
    /\ \E list \in SymbolLists : run_symbols' = list
    \* n_bars is None: Config.LOOKBACK_DAYS + 200
    /\ n_bars' = LOOKBACK_DAYS + 200
    /\ fetch_pos' = 0 /\ all_data' = <<>> /\ outcomes' = <<>> /\ result' = "none"
    /\ raw_data' = <<>> /\ processed_data' = <<>>
    /\ StoreLocalsGone
    /\ again' = FALSE
    /\ pc' = "fetch"
    /\ UNCHANGED <<altVars, store>>

\* one iteration of the loop of fetch_multiple_stocks: fetch_stock_data(symbol)
FetchStock ==
    /\ pc = "fetch"
    /\ fetch_pos < Len(run_symbols)
    /\ LET symbol == run_symbols[fetch_pos + 1]
       IN  \/ \E trend \in {"rising", "falling"} :
                 \* data came back: the frame is appended to all_data
                 /\ all_data' = Append(all_data, get_hist(symbol, n_bars, trend))
                 /\ outcomes' = Append(outcomes, "data")
                 /\ fetch_pos' = fetch_pos + 1
                 /\ UNCHANGED <<pc, result>>
           \/    \* get_hist returned None or an empty frame
                 /\ outcomes' = Append(outcomes, "absent")
                 /\ fetch_pos' = fetch_pos + 1
                 /\ UNCHANGED <<pc, result, all_data>>
           \/    \* get_hist raised
                 /\ outcomes' = Append(outcomes, "error")
                 /\ IF OnFetchError = "skip"
                    THEN fetch_pos' = fetch_pos + 1 /\ UNCHANGED <<pc, result>>
                    ELSE pc' = "done" /\ result' = FALSE /\ UNCHANGED fetch_pos
                 /\ UNCHANGED all_data
    /\ UNCHANGED <<engineVars, altVars, run_symbols, n_bars, storeVars>>

\* fetch_multiple_stocks returns an empty frame: "No data fetched. Exiting."
FetchedNothing ==
    /\ pc = "fetch"
    /\ fetch_pos = Len(run_symbols)
    /\ all_data = <<>>
    /\ result' = FALSE
    /\ pc' = "done"
    /\ UNCHANGED <<engineVars, altVars, run_symbols, n_bars, fetch_pos, all_data,
                   outcomes, storeVars>>

\* fetch_multiple_stocks returns pd.concat(all_data)
FetchedSome ==
    /\ pc = "fetch"
    /\ fetch_pos = Len(run_symbols)
    /\ all_data # <<>>
    /\ raw_data' = Concat(all_data, Len(all_data))
    /\ pc' = "process"
    /\ UNCHANGED <<processed_data, altVars, fetchVars, storeVars>>

\* processed_data = self.indicators.process_multiple_symbols(raw_data)
CalculateIndicators ==
    /\ pc = "process"
    /\ processed_data' = process_multiple_symbols(raw_data)
    /\ pc' = "store"
    /\ UNCHANGED <<raw_data, altVars, fetchVars, storeVars>>

\* _store_data returned: return True
ReturnTrue ==
    /\ pc = "store_ok"
    /\ result' = TRUE
    /\ pc' = "done"
    /\ UNCHANGED <<engineVars, altVars, run_symbols, n_bars, fetch_pos, all_data,
                   outcomes, storeVars>>

\* _store_data raised: except Exception: return False
ReturnFalse ==
    /\ pc = "store_raised"
    /\ result' = FALSE
    /\ pc' = "done"
    /\ UNCHANGED <<engineVars, altVars, run_symbols, n_bars, fetch_pos, all_data,
                   outcomes, storeVars>>

Next ==
    \/ StartRun \/ FetchStock \/ FetchedNothing \/ FetchedSome
    \/ CalculateIndicators \/ StoreData \/ ReturnTrue \/ ReturnFalse

Spec == Init /\ [][Next]_vars

\* ------------------------------------------------ properties of the pipeline
\* C4 (storage failure is fatal): once a statement of _store_data has failed no
\* further statement is issued by that call, _store_data raises, and the run
\* returns False to its caller, never True.
StorageFailureFatal ==
    failed_at > 0 =>
        /\ issued = failed_at
        /\ pc \in {"store_except", "store_raised", "done"}
        /\ pc \in {"store_raised", "done"} => raised
        /\ pc = "done" => result = FALSE

\* a run whose first statement failed with a later batch still to write
StorageFailureWitness ==
    /\ pc = "done"
    /\ failed_at = 1
    /\ Len(records) > batch_size
    /\ result = FALSE

\* C5 (fetch failures are isolated): every symbol of the list is fetched
\* whatever happened to the symbols before it; the frames of all symbols that
\* yielded data reach the engine, which computes a row for each of their bars;
\* a run that returns True has stored those rows; and a run in which no
\* statement and no commit failed returns False only if no symbol yielded data.
DataPositions == {x \in 1..Len(outcomes) : outcomes[x] = "data"}
FetchedBars == UNION {{all_data[x][y] : y \in 1..Len(all_data[x])} : x \in 1..Len(all_data)}
ProcessedRows == {processed_data[x] : x \in 1..Len(processed_data)}

FetchFailuresIsolated ==
    /\ pc \in {"process", "store", "store_loop", "store_except", "store_ok",
               "store_raised", "done"}
           => /\ Len(outcomes) = Len(run_symbols)
              /\ Len(all_data) = Cardinality(DataPositions)
              /\ \A s \in Symbols :
                     (\E x \in DataPositions : run_symbols[x] = s)
                         <=> (\E x \in 1..Len(all_data) : all_data[x][1].symbol = s)
    /\ pc \in {"store", "store_loop", "store_except", "store_ok", "store_raised"}
           => \A bar \in FetchedBars : \E r \in ProcessedRows : SameBar(r, bar)
    /\ (pc = "done" /\ result = TRUE)
           => \A bar \in FetchedBars :
                  \E r \in ProcessedRows : SameBar(r, bar) /\ r \in store
    /\ (pc = "done" /\ result = FALSE /\ DataPositions # {})
           => raised

\* a run in which the first symbol failed hard and a later one is stored
FetchIsolationWitness ==
    /\ pc = "done" /\ result = TRUE
    /\ Len(outcomes) >= 2
    /\ outcomes[1] = "error"
    /\ outcomes[Len(outcomes)] = "data"
    /\ \E r \in store : r.symbol = run_symbols[Len(run_symbols)]

\* ------------------------------------------------ properties of the engine
SeriesDone == pc = "series_done"
Rows == 1..Len(processed_data)

\* C8 (warm-up invariant): rows are numbered from 1 here, so row i of the code
\* is row i+1.  For every period p of DMA_PERIODS and EMA_PERIODS the SMA and
\* the EMA of close are undefined on the rows before row p and defined from
\* row p on.
DmaOf(r, k) ==
    CASE k = 1 -> r.dma_10 [] k = 2 -> r.dma_21 [] k = 3 -> r.dma_50 [] k = 4 -> r.dma_100
EmaOf(r, k) ==
    CASE k = 1 -> r.ema_10 [] k = 2 -> r.ema_21 [] k = 3 -> r.ema_50 [] k = 4 -> r.ema_100

WarmUpInvariant ==
    SeriesDone =>
        \A i \in Rows : \A k \in 1..4 :
            /\ IsNaN(DmaOf(processed_data[i], k)) <=> i < DMA_PERIODS[k]
            /\ IsNaN(EmaOf(processed_data[i], k)) <=> i < EMA_PERIODS[k]

\* a series long enough for the longest period: undefined on row 99, defined on 100
WarmUpWitness ==
    /\ SeriesDone
    /\ Len(processed_data) > 100
    /\ IsNaN(processed_data[99].dma_100) /\ IsNaN(processed_data[99].ema_100)
    /\ ~IsNaN(processed_data[100].dma_100) /\ ~IsNaN(processed_data[100].ema_100)
    /\ IsNaN(processed_data[9].ema_10) /\ ~IsNaN(processed_data[10].ema_10)

\* C9 (F-Score): on every row, warm-up rows included, f_score is an integer in
\* 0..9 equal to the number of the nine conditions that are definable at the row
\* (window full, shifted row present) and true; it is 0 on the first five rows
\* and at most 8 on the first 199 rows.
SumOver(sums, lo, hi) == sums[hi] - (IF lo > 1 THEN sums[lo - 1] ELSE 0)

FScoreConditions(cs, vs, i) ==
    LET c == raw_data[i].close
    IN  <<i >= 50 /\ 50 * c > SumOver(cs, i - 49, i),
          i > 20 /\ c > raw_data[i - 20].close,
          i >= 70 /\ SumOver(cs, i - 49, i) > SumOver(cs, i - 69, i - 20),
          i >= 50 /\ 50 * raw_data[i].volume > SumOver(vs, i - 49, i),
          i >= 20 /\ 2 * SumOver(cs, i - 9, i) > SumOver(cs, i - 19, i),
          i >= 50 /\ 5 * SumOver(cs, i - 19, i) > 2 * SumOver(cs, i - 49, i),
          i >= 200 /\ 200 * c > SumOver(cs, i - 199, i),
          i > 5 /\ c > raw_data[i - 5].close,
          i > 20 /\ c > raw_data[i - 20].close>>

FScoreCount ==
    SeriesDone =>
        LET cs == RunningSum(Column(raw_data, "close"))
            vs == RunningSum(Column(raw_data, "volume"))
        IN  \A i \in Rows :
            LET f == processed_data[i].f_score
                conds == FScoreConditions(cs, vs, i)
            IN  /\ f \in 0..9
                /\ f = Cardinality({k \in 1..9 : conds[k]})
                /\ (i <= 5 => f = 0)
                /\ (i <= 199 => f <= 8)

\* all nine conditions hold on a late row and none on the first row
FScoreWitness ==
    /\ SeriesDone
    /\ Len(processed_data) >= 200
    /\ processed_data[200].f_score = 9
    /\ processed_data[199].f_score = 8
    /\ processed_data[1].f_score = 0

\* C10 (T-Score range): t_score is undefined on the first 13 rows; from row 14
\* on, when the 14-row maximum of high exceeds the 14-row minimum of low and the
\* row's own bar has low <= close <= high, 0 <= t_score <= 100; when the 14-row
\* range is flat, t_score is defined.
Highest(df) == RollingMax(Column(df, "high"), lookback, lookback)
Lowest(df) == RollingMin(Column(df, "low"), lookback, lookback)
InRange(t) == Ge(t, Rat(0)) /\ Le(t, Rat(100))
ValidBar(r) == r.low <= r.close /\ r.close <= r.high

TScoreRangeValidBars ==
    SeriesDone =>
        LET High14 == Highest(raw_data)
            Low14 == Lowest(raw_data)
        IN  \A i \in Rows :
            LET r == processed_data[i]
            IN  /\ i < lookback => IsNaN(r.t_score)
                /\ (i >= lookback /\ Gt(High14[i], Low14[i]) /\ ValidBar(r))
                       => InRange(r.t_score)
                /\ (i >= lookback /\ High14[i] = Low14[i]) => ~IsNaN(r.t_score)

\* a series with rows that break the Bar invariant and rows that keep it
TScoreWitness ==
    /\ SeriesDone
    /\ LET High14 == Highest(raw_data)
           Low14 == Lowest(raw_data)
       IN  \E i, j \in Rows :
        /\ i >= lookback /\ j >= lookback
        /\ ValidBar(processed_data[i]) /\ ~ValidBar(processed_data[j])
        /\ Gt(High14[i], Low14[i])
        /\ InRange(processed_data[i].t_score)
        /\ Gt(processed_data[i].t_score, Rat(0))

\* C10 as stated: the range holds on every row from row 14 on of any series,
\* whether or not its bars keep low <= close <= high
TScoreRangeAnyRows ==
    SeriesDone =>
        LET High14 == Highest(raw_data)
            Low14 == Lowest(raw_data)
        IN  \A i \in Rows :
            LET r == processed_data[i]
            IN  /\ i < lookback => IsNaN(r.t_score)
                /\ (i >= lookback /\ Gt(High14[i], Low14[i])) => InRange(r.t_score)
                /\ (i >= lookback /\ High14[i] = Low14[i]) => ~IsNaN(r.t_score)

\* C11 (reflexive extremum): in a series whose largest high occurs on one row
\* only, row k, is_all_time_high is true on row k and false on every row after
\* k; on a row j before k (its maximum of high through j is below high[k]) the
\* flag is true exactly when high[j] is the maximum of high through row j.
PeakRows(run) == {i \in 1..Len(raw_data) : raw_data[i].high = run[Len(run)]}

ReflexiveExtremum ==
    (SeriesDone /\ raw_data # <<>>) =>
        LET run == RunningMax(Column(raw_data, "high"))
            peaks == PeakRows(run)
        IN  Cardinality(peaks) = 1 =>
                LET k == CHOOSE i \in peaks : TRUE
                IN  /\ processed_data[k].is_all_time_high
                    /\ \A j \in Rows :
                           /\ j > k => ~processed_data[j].is_all_time_high
                           /\ j < k => (processed_data[j].is_all_time_high
                                            <=> raw_data[j].high = run[j])

\* a single peak inside the series, a new high before it and no high after it
ReflexiveWitness ==
    /\ SeriesDone /\ raw_data # <<>>
    /\ LET run == RunningMax(Column(raw_data, "high"))
           peaks == PeakRows(run)
       IN  /\ Cardinality(peaks) = 1
           /\ \E k \in peaks :
                  /\ 1 < k /\ k < Len(raw_data)
                  /\ processed_data[k].is_all_time_high
                  /\ run[1] < raw_data[k].high
                  /\ processed_data[1].is_all_time_high
                  /\ ~processed_data[Len(raw_data)].is_all_time_high

\* C11 as stated: the flag is false on every row whose maximum of high through
\* that row is strictly below the series' single largest high
ReflexiveExtremumAsStated ==
    (SeriesDone /\ raw_data # <<>>) =>
        LET run == RunningMax(Column(raw_data, "high"))
            peaks == PeakRows(run)
        IN  Cardinality(peaks) = 1 =>
                LET k == CHOOSE i \in peaks : TRUE
                IN  /\ processed_data[k].is_all_time_high
                    /\ \A j \in Rows :
                           run[j] < raw_data[k].high
                               => ~processed_data[j].is_all_time_high

\* C12 (EMA recursion): with alpha = 2 / (p + 1), the first defined value of
\* calculate_ema(close, p), on row p, is the value on row p of the recursion
\* y[1] = x[1], y[i] = alpha x[i] + (1 - alpha) y[i-1] started on the first
\* row, and every later value is alpha x[i] + (1 - alpha) ema[i-1] (values on
\* the 1/EmaScale grid, rounded down).
EmaStep(p, y, v) == ((p - 1) * y + 2 * v * EmaScale) \div (p + 1)

RECURSIVE EwmFromFirst(_, _)
EwmFromFirst(p, i) ==
    IF i = 1 THEN raw_data[1].close * EmaScale
    ELSE EmaStep(p, EwmFromFirst(p, i - 1), raw_data[i].close)

\* |ema - mean of the first p closes| on row p, in units of 1 / (p EmaScale)
SeedOffMean(p, ema, cs) ==
    LET d == p * ema.num - cs[p] * EmaScale
    IN  IF d < 0 THEN 0 - d ELSE d

EmaRecursion ==
    SeriesDone =>
        \A k \in 1..4 :
            LET p == EMA_PERIODS[k]
            IN  /\ Len(raw_data) >= p =>
                       EmaOf(processed_data[p], k)
                           = [num |-> EwmFromFirst(p, p), den |-> EmaScale]
                /\ \A i \in Rows : i > p =>
                       EmaOf(processed_data[i], k)
                           = [num |-> EmaStep(p, EmaOf(processed_data[i - 1], k).num,
                                              raw_data[i].close),
                              den |-> EmaScale]

\* a moving series: each first defined value is more than half a price unit
\* from the mean of the first p closes, and the recursion has run past row 100
EmaWitness ==
    /\ SeriesDone
    /\ Len(raw_data) > 100
    /\ LET cs == RunningSum(Column(raw_data, "close"))
       IN  \A k \in 1..4 :
               LET p == EMA_PERIODS[k]
               IN  /\ 2 * SeedOffMean(p, EmaOf(processed_data[p], k), cs) > p * EmaScale
                   /\ ~IsNaN(EmaOf(processed_data[p + 1], k))

\* C12 as stated: the first defined value is the mean of the first p closes
\* (to within the rounding of the grid, less than p + 1 grid steps), and the
\* recursion holds from the next row on
EmaSeededByMean ==
    SeriesDone =>
        LET cs == RunningSum(Column(raw_data, "close"))
        IN  \A k \in 1..4 :
            LET p == EMA_PERIODS[k]
            IN  /\ Len(raw_data) >= p =>
                       SeedOffMean(p, EmaOf(processed_data[p], k), cs) <= p * (p + 1)
                /\ \A i \in Rows : i > p =>
                       EmaOf(processed_data[i], k)
                           = [num |-> EmaStep(p, EmaOf(processed_data[i - 1], k).num,
                                              raw_data[i].close),
                              den |-> EmaScale]

\* C13 (all-time flags imply 52-week flags): on every row is_all_time_high
\* implies is_52_week_high and is_all_time_low implies is_52_week_low; on the
\* first WEEK_52_DAYS rows each 52-week flag equals its all-time flag; on the
\* first row all four flags are true.
FlagsNested ==
    SeriesDone =>
        \A i \in Rows :
            LET r == processed_data[i]
            IN  /\ r.is_all_time_high => r.is_52_week_high
                /\ r.is_all_time_low => r.is_52_week_low
                /\ i <= WEEK_52_DAYS =>
                       /\ r.is_52_week_high = r.is_all_time_high
                       /\ r.is_52_week_low = r.is_all_time_low
                /\ i = 1 =>
                       /\ r.is_52_week_high /\ r.is_all_time_high
                       /\ r.is_52_week_low /\ r.is_all_time_low

\* the window has left the first row behind: on row WEEK_52_DAYS + 1 the
\* 52-week flags are true and the all-time flags false, while on an earlier row
\* all four are false
FlagsWitness ==
    /\ SeriesDone
    /\ Len(processed_data) > WEEK_52_DAYS
    /\ LET r == processed_data[WEEK_52_DAYS + 1]
       IN  /\ r.is_52_week_high /\ ~r.is_all_time_high
           /\ r.is_52_week_low /\ ~r.is_all_time_low
    /\ \E i \in 2..WEEK_52_DAYS :
           LET r == processed_data[i]
           IN  /\ ~r.is_52_week_high /\ ~r.is_all_time_high
               /\ ~r.is_52_week_low /\ ~r.is_all_time_low

====
